---- MODULE Spec2Model ----
(***************************************************************************)
(* Query orchestration and session memory of the Slack codebase chatbot:   *)
(* memory_manager.py / lambda_memory.py (session store), query_service.py  *)
(* (query_codebase), ai_service.py (process_with_ai) and slack_bot.py      *)
(* (process_query).                                                        *)
(*                                                                         *)
(* Texts are sequences of tokens: "" is <<>>, a one-token text is <<"x">>, *)
(* concatenation is \o.  The token " " is white space.                     *)
(***************************************************************************)
EXTENDS Integers, Sequences, FiniteSets, TLC

\* ---------------------------------------------------------------- bounds
\* longest query, in tokens, of the exhaustive part of the classifier's inputs
MaxQueryLen == 3
\* largest value of max_messages the store is configured with (0..bound)
MaxMessagesBound == 2
\* number of add_message calls made on the store in the store-only runs
MaxAdds == 3

\* MemoryManager.__init__: the default of max_messages, which slack_bot uses
\* when MAX_CONVERSATION_MESSAGES is not set
DEFAULT_MAX_MESSAGES == 10

\* ------------------------------------------------------------ value sets
\* Python's None, kept apart from every text (no text holds this token)
None == <<"<None>">>

\* Slack message timestamps; the running bot keys its sessions by them
SessionIds == {<<"t1">>, <<"t2">>}

Roles == {"user", "assistant"}

\* message contents used by the store-only runs
StoreContents == {<<"a">>, <<"b">>}

\* the requests handled by the bot, possibly concurrently (one thread each)
Requests == {1, 2}

\* the Slack timestamp of the message of request r (unique per message)
TsOf(r) == IF r = 1 THEN <<"t1">> ELSE <<"t2">>

\* thread_ts of the event of request r: absent, or the timestamp of an earlier
\* message, the root of the thread it replies in
ThreadChoices(r) == {None} \cup {TsOf(k) : k \in {j \in Requests : j < r}}

Channels == {<<"C1">>}

\* query texts of request r: empty, or a question (the first with a trigger
\* keyword, the second without)
Queries(r) == {<<>>, IF r = 1 THEN <<"f", "i", "x">> ELSE <<"h", "i">>}

VARIABLES
    max_messages,     \* MemoryManager.max_messages
    conversations,    \* MemoryManager.conversations: session_id -> list of messages
    now,              \* time.time(), as a logical clock
    added,            \* history: per session, every turn added since it was last absent
    enforce,          \* ENABLE_READONLY_ENFORCEMENT
    writable,         \* the repository directory has write permission
    pc,               \* per request: where its thread stands
    event,            \* process_query: the inbound event
    query,            \* process_query: query
    session_id,       \* process_query: session_id
    conversation_context, \* process_query: conversation_context
    result,           \* process_query: result
    said,             \* what say() was called with
    start_time,       \* query_codebase: start_time
    execution_time,   \* query_codebase: execution_time
    argv,             \* query_codebase: the enhanced query handed to cursor-agent
    proc,             \* query_codebase: the analysis process
    returncode,       \* query_codebase: process.returncode
    stdout_data,      \* query_codebase: stdout_data
    stderr_data,      \* query_codebase: stderr_data
    raw_response,     \* query_codebase: raw_response
    prompt,           \* process_with_ai: the prompt sent to the completion API
    retval,           \* query_codebase: the value of the return statement reached
    histBefore,       \* history: the session as it was before the request's user turn
    trace,            \* history: per request, the steps it has taken, in order
    call,             \* the operation invoked directly on the store or on a function
    ret,              \* what that operation returned
    am_pc,            \* add_message run by concurrent threads: where each thread stands
    am_args,          \* add_message run by concurrent threads: session_id, role, content
    am_sliced         \* add_message, line 34: the list built by the slice expression

storeVars == <<max_messages, conversations, now, added>>
fsVars == <<enforce, writable>>
pqVars == <<event, query, session_id, conversation_context, result, said, histBefore>>
ioVars == <<returncode, stdout_data, stderr_data>>
qcVars == <<start_time, execution_time, argv, proc, ioVars, raw_response, prompt, retval>>
amVars == <<am_pc, am_args, am_sliced>>
directVars == <<call, ret, amVars>>
botVars == <<fsVars, pqVars, qcVars, pc, trace>>
vars == <<storeVars, fsVars, pqVars, qcVars, pc, trace, directVars>>

\* ------------------------------------------------------ the session store
\* list[-n:] of Python, for n >= 0: the last n elements, but the WHOLE list
\* when n = 0 (since -0 = 0 and list[0:] is the list)
LastSlice(list, n) ==
    IF n = 0 \/ n >= Len(list) THEN list
    ELSE SubSeq(list, Len(list) - n + 1, Len(list))

\* dict[key] = value
DictSet(d, key, value) ==
    [k \in (DOMAIN d) \cup {key} |-> IF k = key THEN value ELSE d[k]]

\* del dict[key]
DictDel(d, key) == [k \in (DOMAIN d) \ {key} |-> d[k]]

\* the empty dict
EmptyDict == [k \in {} |-> <<>>]

\* MemoryManager.get_context / LambdaMemoryManager.get_context
get_context(convs, sid) ==
    IF sid \in DOMAIN convs THEN convs[sid] ELSE <<>>

\* a message dictionary
Message(role, content, timestamp) ==
    [role |-> role, content |-> content, timestamp |-> timestamp]

\* MemoryManager.add_message / LambdaMemoryManager.add_message: the store after
\* the call
add_message(convs, maxm, sid, role, content, timestamp) ==
    LET created  == IF sid \in DOMAIN convs THEN convs
                    ELSE DictSet(convs, sid, <<>>)
        appended == Append(created[sid], Message(role, content, timestamp))
    IN  IF Len(appended) > maxm
        THEN DictSet(created, sid, LastSlice(appended, maxm))
        ELSE DictSet(created, sid, appended)

\* faulty variant of clear_session: the session is emptied, its key stays
clear_session_keeps_key(convs, sid) == DictSet(convs, sid, <<>>)

\* MemoryManager.clear_session / LambdaMemoryManager.clear_session
clear_session(convs, sid) ==
    IF sid \in DOMAIN convs THEN DictDel(convs, sid) ELSE convs

\* history kept beside add_message: every turn added to the session
NoteAdded(sid, role, content, timestamp) ==
    added' = [added EXCEPT ![sid] =
                 Append(@, Message(role, content, timestamp))]

\* -------------------------------------------------------------- texts
WhiteSpace == {" ", "\n", "\t"}

\* truthiness of a str-or-None value: None and "" are falsy
Truthy(v) == v # None /\ v # <<>>

\* a or b, of Python
Or(a, b) == IF Truthy(a) THEN a ELSE b

RECURSIVE LStrip(_)
LStrip(t) == IF t # <<>> /\ Head(t) \in WhiteSpace THEN LStrip(Tail(t)) ELSE t

RECURSIVE RStrip(_)
RStrip(t) ==
    IF t # <<>> /\ t[Len(t)] \in WhiteSpace THEN RStrip(SubSeq(t, 1, Len(t) - 1)) ELSE t

\* str.strip()
Strip(t) == RStrip(LStrip(t))

UpperToLower ==
    [A |-> "a", B |-> "b", C |-> "c", D |-> "d", E |-> "e", F |-> "f", G |-> "g",
     H |-> "h", I |-> "i", J |-> "j", K |-> "k", L |-> "l", M |-> "m", N |-> "n",
     O |-> "o", P |-> "p", Q |-> "q", R |-> "r", S |-> "s", T |-> "t", U |-> "u",
     V |-> "v", W |-> "w", X |-> "x", Y |-> "y", Z |-> "z"]

\* str.lower()
Lower(t) == [i \in 1..Len(t) |-> IF t[i] \in DOMAIN UpperToLower
                                 THEN UpperToLower[t[i]] ELSE t[i]]

\* t in q, of Python strings
Contains(q, t) ==
    \E i \in 1..(Len(q) - Len(t) + 1) : SubSeq(q, i, i + Len(t) - 1) = t

\* str(v)
Str(v) == IF v = None THEN <<"None">> ELSE v

\* ----------------------------------------------------- intent classifier
triggers ==
    << <<"o","n","c","a","l","l">>, <<"o","n","-","c","a","l","l">>,
       <<"o","n"," ","c","a","l","l">>, <<"i","s","s","u","e">>, <<"f","i","x">>,
       <<"e","r","r","o","r">>, <<"i","n","c","i","d","e","n","t">>,
       <<"b","u","g">>, <<"b","r","o","k","e","n">> >>

\* faulty variant of _is_oncall_or_issue: the query is not lower-cased
is_oncall_or_issue_case_sensitive(text) ==
    IF text = None \/ text = <<>> \/ Strip(text) = <<>> THEN FALSE
    ELSE \E i \in 1..Len(triggers) : Contains(Strip(text), triggers[i])

\* query_service._is_oncall_or_issue
is_oncall_or_issue(text) ==
    IF text = None \/ text = <<>> \/ Strip(text) = <<>> THEN FALSE
    ELSE LET q == Strip(Lower(text))
         IN  \E i \in 1..Len(triggers) : Contains(q, triggers[i])

CURSOR_AUDIENCE_PROMPT == <<"CURSOR_AUDIENCE_PROMPT">>
CURSOR_ONCALL_PROMPT == <<"CURSOR_ONCALL_PROMPT">>

\* query_codebase: the enhanced query, last element of the argument vector
enhanced_query(text, context) ==
    LET cursor_prompt == IF is_oncall_or_issue(text) THEN CURSOR_ONCALL_PROMPT
                         ELSE CURSOR_AUDIENCE_PROMPT
        base == cursor_prompt \o text
    IN  IF Truthy(context)
        THEN base \o <<"\n\nPrevious conversation:\n">> \o context
        ELSE base

\* ------------------------------------------------- session keys, context
\* MemoryManager.get_session_id
get_session_id(thread_ts) == Str(thread_ts)

\* LambdaMemoryManager.get_session_id
lambda_get_session_id(user_id, channel_id, thread_ts) ==
    LET t == IF ~Truthy(thread_ts) THEN channel_id ELSE thread_ts
    IN  user_id \o <<":">> \o channel_id \o <<":">> \o t

\* one rendered line of get_formatted_context
FormatLine(msg) ==
    <<IF msg.role = "user" THEN "User" ELSE "Assistant", ": ">> \o msg.content

\* "\n".join(lines)
RECURSIVE Join(_)
Join(lines) ==
    IF lines = <<>> THEN <<>>
    ELSE IF Len(lines) = 1 THEN lines[1]
    ELSE lines[1] \o <<"\n">> \o Join(Tail(lines))

\* the rendering of a list of messages
FormatMessages(messages) ==
    IF messages = <<>> THEN <<>>
    ELSE Join([i \in 1..Len(messages) |-> FormatLine(messages[i])])

\* MemoryManager.get_formatted_context / LambdaMemoryManager.get_formatted_context
get_formatted_context(convs, sid) ==
    FormatMessages(get_context(convs, sid))

\* ------------------------------------------- analysis output, formatter
\* What the analysis process wrote to standard output:
\*   kind "object"  - a JSON object, payload holds its keys (None: key absent)
\*   kind "array", "string", "number", "null" - JSON of another shape
\*   kind "text"    - not JSON; body is the text (possibly empty or blank)
NoPayload == [type |-> None, result |-> None, response |-> None,
              content |-> None, text |-> None]

JsonObject(payload) == [kind |-> "object", payload |-> payload, body |-> <<>>]
JsonOther(kind) == [kind |-> kind, payload |-> NoPayload, body |-> <<>>]
PlainText(body) == [kind |-> "text", payload |-> NoPayload, body |-> body]

PythonType(kind) ==
    CASE kind = "array"  -> "list"
      [] kind = "string" -> "str"
      [] kind = "number" -> "int"
      [] OTHER           -> "NoneType"

JsonKeys == <<"type", "result", "response", "content", "text">>

RECURSIVE DumpKeys(_, _)
DumpKeys(payload, i) ==
    IF i > Len(JsonKeys) THEN <<>>
    ELSE (IF payload[JsonKeys[i]] = None THEN <<>>
          ELSE <<JsonKeys[i], ": ">> \o payload[JsonKeys[i]] \o <<"\n">>)
         \o DumpKeys(payload, i + 1)

\* json.dumps(parsed, indent=2)
Dump(payload) == <<"{\n">> \o DumpKeys(payload, 1) \o <<"}">>

\* query_codebase, returncode 0: the raw response chosen from the output, or
\* the exception the choice raises
ParseOutput(out, err) ==
    IF out.kind = "object" THEN
        LET parsed == out.payload
            chosen == IF parsed.type = <<"result">> THEN parsed.result
                      ELSE Or(parsed.response,
                           Or(parsed.content, Or(parsed.text, Dump(parsed))))
        IN  [raised |-> FALSE, exc |-> None, raw_response |-> Or(chosen, <<"No response">>)]
    ELSE IF out.kind = "text" THEN
        \* json.JSONDecodeError
        [raised |-> FALSE, exc |-> None,
         raw_response |-> Or(Strip(out.body),
                             Or(Strip(err), <<"Empty response">>))]
    ELSE
        \* parsed.get: AttributeError, caught by "except Exception"
        [raised |-> TRUE,
         exc |-> <<"'", PythonType(out.kind), "' object has no attribute 'get'">>,
         raw_response |-> None]

AI_NOTE == <<"\n\n[Note: AI processing unavailable, showing raw response]">>

\* the completion API's answer: a content, an exception, or no choices
ApiOk(content) == [outcome |-> "api_ok", content |-> content]
ApiRaises == [outcome |-> "api_raise", content |-> None]
ApiNoChoices == [outcome |-> "api_no_choices", content |-> None]

\* ai_service.process_with_ai: the prompt sent as the sole message
ai_prompt(raw, user_query, context, mode) ==
    LET preamble == IF mode = <<"oncall">> THEN <<"ONCALL_FIX_GUIDE_PREAMBLE">>
                    ELSE <<"STAKEHOLDER_PREAMBLE">>
        base == preamble \o <<"A user asked: \"">> \o user_query \o <<"\"">>
                \o <<"The codebase query tool returned the following response:">>
                \o raw
        hist == IF Truthy(context)
                THEN <<"Conversation History:">> \o context
                ELSE <<>>
        closing == IF mode = <<"oncall">> THEN <<"ONCALL_FORMATTING">>
                   ELSE <<"DEFAULT_FORMATTING">>
    IN  base \o hist \o closing

\* ai_service.process_with_ai: the text returned
process_with_ai(raw, api) ==
    IF api.outcome = "api_ok" THEN api.content
    ELSE IF api.outcome = "api_no_choices" THEN raw
    ELSE raw \o AI_NOTE

\* ---------------------------------------------------------- query results
\* the dictionary query_codebase returns (None: key absent)
Success(response, elapsed) ==
    [success |-> TRUE, response |-> response, error |-> None,
     executionTime |-> elapsed]

Failure(error, elapsed) ==
    [success |-> FALSE, response |-> None, error |-> error,
     executionTime |-> elapsed]

\* no dictionary (yet)
NoResult == [success |-> FALSE, response |-> None, error |-> None, executionTime |-> -1]

\* f"Query timeout after {timeout}ms"
TimeoutMessage(timeout) == <<"Query timeout after ", ToString(timeout), "ms">>

\* f"Failed to execute cursor-agent: {str(e)}"
FailedMessage(exc) == <<"Failed to execute cursor-agent: ">> \o exc

\* faulty variant of ExitMessage: the captured standard error is dropped
ExitMessageGeneric(err, code) == <<"Process exited with code ", ToString(code)>>

\* stderr_data or f"Process exited with code {process.returncode}"
ExitMessage(err, code) ==
    Or(err, <<"Process exited with code ", ToString(code)>>)

\* ------------------------------------------------------------ initial state
\* no operation invoked directly
NoCall == [fn |-> "none", sid |-> None, arg |-> None]
NoRet == [done |-> FALSE, value |-> None]
NoArgs == [sid |-> None, role |-> "none", content |-> None]

\* the bot after module initialisation: an empty store, no request under way
InitBot ==
    /\ max_messages \in (0..MaxMessagesBound) \cup {DEFAULT_MAX_MESSAGES}
    /\ conversations = EmptyDict
    /\ now = 0
    /\ added = [s \in SessionIds |-> <<>>]
    /\ enforce \in BOOLEAN
    /\ writable = TRUE
    /\ pc = [r \in Requests |-> "idle"]
    /\ event = [r \in Requests |-> [channel |-> None, ts |-> None, thread_ts |-> None]]
    /\ query = [r \in Requests |-> None]
    /\ session_id = [r \in Requests |-> None]
    /\ conversation_context = [r \in Requests |-> None]
    /\ result = [r \in Requests |-> NoResult]
    /\ said = [r \in Requests |-> None]
    /\ start_time = [r \in Requests |-> 0]
    /\ execution_time = [r \in Requests |-> 0]
    /\ argv = [r \in Requests |-> None]
    /\ proc = [r \in Requests |-> "none"]
    /\ returncode = [r \in Requests |-> 0]
    /\ stdout_data = [r \in Requests |-> None]
    /\ stderr_data = [r \in Requests |-> None]
    /\ raw_response = [r \in Requests |-> None]
    /\ prompt = [r \in Requests |-> None]
    /\ retval = [r \in Requests |-> NoResult]
    /\ histBefore = [r \in Requests |-> <<>>]
    /\ trace = [r \in Requests |-> <<>>]
    /\ am_pc = [t \in Requests |-> "idle"]
    /\ am_args = [t \in Requests |-> NoArgs]
    /\ am_sliced = [t \in Requests |-> <<>>]

Init ==
    /\ InitBot
    /\ call = NoCall
    /\ ret = NoRet

\* -------------------------------------------- store-only specification
\* the call made on the store, and a return without a value
StoreCall(fn, sid) == [fn |-> fn, sid |-> sid, arg |-> None]
Returned(value) == [done |-> TRUE, value |-> value]

\* add_message called directly on the store
StoreAdd ==
    /\ now < MaxAdds
    /\ \E s \in SessionIds, role \in Roles, content \in StoreContents :
          /\ conversations' = add_message(conversations, max_messages, s, role, content, now)
          /\ NoteAdded(s, role, content, now)
          /\ call' = StoreCall("add_message", s)
    /\ now' = now + 1
    /\ ret' = Returned(None)
    /\ UNCHANGED <<max_messages, amVars, botVars>>

\* clear_session called directly on the store
StoreClear ==
    /\ \E s \in SessionIds :
          /\ conversations' = clear_session(conversations, s)
          /\ added' = [added EXCEPT ![s] = <<>>]
          /\ call' = StoreCall("clear_session", s)
    /\ ret' = Returned(None)
    /\ UNCHANGED <<max_messages, now, amVars, botVars>>

\* faulty variant of StoreGetContext: an unknown session is created by the read
StoreGetContextCreating ==
    /\ \E s \in SessionIds :
          /\ call' = StoreCall("get_context", s)
          /\ ret' = Returned(get_context(conversations, s))
          /\ conversations' = DictSet(conversations, s, get_context(conversations, s))
    /\ UNCHANGED <<max_messages, now, added, amVars, botVars>>

\* get_context called directly on the store: dict.get with a default
StoreGetContext ==
    /\ \E s \in SessionIds :
          /\ call' = StoreCall("get_context", s)
          /\ ret' = Returned(get_context(conversations, s))
    /\ UNCHANGED <<storeVars, amVars, botVars>>

\* get_formatted_context called directly on the store
StoreGetFormattedContext ==
    /\ \E s \in SessionIds :
          /\ call' = StoreCall("get_formatted_context", s)
          /\ ret' = Returned(get_formatted_context(conversations, s))
    /\ UNCHANGED <<storeVars, amVars, botVars>>

\* get_session_id called directly on the store
StoreGetSessionId ==
    /\ \E th \in SessionIds :
          /\ call' = [fn |-> "get_session_id", sid |-> None, arg |-> th]
          /\ ret' = Returned(get_session_id(th))
    /\ UNCHANGED <<storeVars, amVars, botVars>>

NextStore ==
    \/ StoreAdd
    \/ StoreClear
    \/ StoreGetContext
    \/ StoreGetFormattedContext
    \/ StoreGetSessionId

SpecStore == Init /\ [][NextStore]_vars

\* ------------------------- add_message run by concurrent threads
\* The store has no lock and slack_bolt runs listeners on a thread pool, so the
\* statements of two add_message calls interleave.  Each action is one
\* statement (or one side of an assignment) of memory_manager.py lines 23-34.
Threads == Requests

AmStep(t, label) == am_pc' = [am_pc EXCEPT ![t] = label]

\* add_message(session_id, role, content) is entered
am_call(t) ==
    /\ am_pc[t] = "idle"
    /\ now + Cardinality({u \in Threads : am_pc[u] # "idle"}) < MaxAdds
    /\ \E s \in SessionIds, role \in Roles, content \in StoreContents :
          am_args' = [am_args EXCEPT ![t] = [sid |-> s, role |-> role, content |-> content]]
    /\ AmStep(t, "check")
    /\ UNCHANGED <<storeVars, botVars, call, ret, am_sliced>>

\* line 23: if session_id not in self.conversations
am_check(t) ==
    /\ am_pc[t] = "check"
    /\ AmStep(t, IF am_args[t].sid \in DOMAIN conversations THEN "append" ELSE "create")
    /\ UNCHANGED <<storeVars, botVars, call, ret, am_args, am_sliced>>

\* line 24: self.conversations[session_id] = []
am_create(t) ==
    /\ am_pc[t] = "create"
    /\ conversations' = DictSet(conversations, am_args[t].sid, <<>>)
    /\ AmStep(t, "append")
    /\ UNCHANGED <<max_messages, now, added, botVars, call, ret, am_args, am_sliced>>

\* lines 26-30: self.conversations[session_id].append({...})
am_append(t) ==
    /\ am_pc[t] = "append"
    /\ conversations' = DictSet(conversations, am_args[t].sid,
                                Append(conversations[am_args[t].sid],
                                       Message(am_args[t].role, am_args[t].content, now)))
    /\ NoteAdded(am_args[t].sid, am_args[t].role, am_args[t].content, now)
    /\ now' = now + 1
    /\ AmStep(t, "len")
    /\ UNCHANGED <<max_messages, botVars, call, ret, am_args, am_sliced>>

\* line 33: if len(self.conversations[session_id]) > self.max_messages;
\* the call returns when it is not
am_len(t) ==
    /\ am_pc[t] = "len"
    /\ IF Len(conversations[am_args[t].sid]) > max_messages
       THEN /\ AmStep(t, "slice")
            /\ UNCHANGED am_args
       ELSE /\ AmStep(t, "idle")
            /\ am_args' = [am_args EXCEPT ![t] = NoArgs]
    /\ UNCHANGED <<storeVars, botVars, call, ret, am_sliced>>

\* line 34, right-hand side: self.conversations[session_id][-self.max_messages:]
am_slice(t) ==
    /\ am_pc[t] = "slice"
    /\ am_sliced' = [am_sliced EXCEPT ![t] =
                         LastSlice(conversations[am_args[t].sid], max_messages)]
    /\ AmStep(t, "assign")
    /\ UNCHANGED <<storeVars, botVars, call, ret, am_args>>

\* line 34, the assignment: self.conversations[session_id] = <the slice>
am_assign(t) ==
    /\ am_pc[t] = "assign"
    /\ conversations' = DictSet(conversations, am_args[t].sid, am_sliced[t])
    /\ am_sliced' = [am_sliced EXCEPT ![t] = <<>>]
    /\ am_args' = [am_args EXCEPT ![t] = NoArgs]
    /\ AmStep(t, "idle")
    /\ UNCHANGED <<max_messages, now, added, botVars, call, ret>>

NextConc ==
    \E t \in Threads :
        \/ am_call(t)
        \/ am_check(t)
        \/ am_create(t)
        \/ am_append(t)
        \/ am_len(t)
        \/ am_slice(t)
        \/ am_assign(t)

SpecConc == Init /\ [][NextConc]_vars

\* ------------------------------------- classifier-only specification
\* the characters queries are made of in the exhaustive part of the inputs
QueryAlphabet == {"f", "i", "x", "F", "I", " ", "a"}

\* every text over the alphabet of at most n tokens
RECURSIVE TextsUpTo(_)
TextsUpTo(n) ==
    IF n = 0 THEN {<<>>}
    ELSE LET shorter == TextsUpTo(n - 1)
         IN  shorter \cup {Append(t, c) : t \in shorter, c \in QueryAlphabet}

\* str.upper(), on the letters of the keywords
Upper(t) == [i \in 1..Len(t) |->
                IF \E U \in DOMAIN UpperToLower : UpperToLower[U] = t[i]
                THEN CHOOSE U \in DOMAIN UpperToLower : UpperToLower[U] = t[i]
                ELSE t[i]]

\* str.capitalize() of a lower-case keyword
Capitalize(t) == IF t = <<>> THEN t ELSE Upper(<<t[1]>>) \o Tail(t)

\* what surrounds a keyword in a query
Paddings == {<<>>, <<" ">>, <<"a">>, <<"T", "h", "e", " ">>}

\* each keyword, in three spellings, and each keyword with its last letter cut
KeywordSpellings ==
    UNION {{triggers[i], Upper(triggers[i]), Capitalize(triggers[i]),
            SubSeq(triggers[i], 1, Len(triggers[i]) - 1)} : i \in 1..Len(triggers)}

\* the queries the classifier is applied to
ClassifierInputs ==
    TextsUpTo(MaxQueryLen)
    \cup {a \o k \o b : a \in Paddings, k \in KeywordSpellings, b \in Paddings}
    \cup {<<" ", " ">>, <<"\n">>, <<"\t", " ", "\n">>}

InitClassify ==
    /\ InitBot
    /\ call \in {[fn |-> "_is_oncall_or_issue", sid |-> None, arg |-> q] :
                     q \in ClassifierInputs}
    /\ ret = NoRet

\* query_service.py line 74: is_oncall_flow = _is_oncall_or_issue(query)
classify ==
    /\ call.fn = "_is_oncall_or_issue"
    /\ ~ret.done
    /\ ret' = [done |-> TRUE, value |-> is_oncall_or_issue(call.arg)]
    /\ UNCHANGED <<storeVars, botVars, call, amVars>>

NextClassify == classify

SpecClassify == InitClassify /\ [][NextClassify]_vars

\* ---------------------------------- output-parsing-only specification
\* JSON objects the analysis process can print: each key absent, empty or set
JsonPayloads ==
    [type : {None, <<"result">>, <<"other">>},
     result : {None, <<>>, <<"res">>},
     response : {None, <<>>, <<"resp">>},
     content : {None, <<"cont">>},
     text : {None, <<>>, <<"txt">>}]

\* what the analysis process can print on standard output and standard error
\* before it exits with code 0
ParseInputs ==
    [stdout : {JsonObject(p) : p \in JsonPayloads}
              \cup {JsonOther(k) : k \in {"array", "string", "number", "null"}}
              \cup {PlainText(b) : b \in {<<>>, <<" ">>, <<"out">>, <<" ", "out", "\n">>}},
     stderr : {<<>>, <<" ">>, <<"err">>, <<"err", "\n">>}]

InitParse ==
    /\ InitBot
    /\ call \in {[fn |-> "parse", sid |-> None, arg |-> a] : a \in ParseInputs}
    /\ ret = NoRet

\* query_service.py lines 114-120, with returncode 0
parse_output ==
    /\ call.fn = "parse"
    /\ ~ret.done
    /\ ret' = [done |-> TRUE, value |-> ParseOutput(call.arg.stdout, call.arg.stderr)]
    /\ UNCHANGED <<storeVars, botVars, call, amVars>>

NextParse == parse_output

SpecParse == InitParse /\ [][NextParse]_vars

\* --------------------------------------------------- program constants
\* query_service.DEFAULT_TIMEOUT (milliseconds), the timeout process_query passes
DEFAULT_TIMEOUT == 600000

empty_query_message == <<"Hi! I'm ready to help you query the codebase.">>

\* ------------------------------------------------ inputs from outside
\* what the analysis process can leave behind when it exits:
\* returncode, standard output, standard error
ProcessOutputs ==
    {[returncode |-> 1, stdout |-> PlainText(<<"partial">>), stderr |-> e] :
        e \in {<<>>, <<"err">>}}
    \cup
    {[returncode |-> 0, stdout |-> o, stderr |-> <<>>] :
        o \in {JsonObject([NoPayload EXCEPT !.type = <<"result">>, !.result = <<"res">>]),
               JsonOther("array"),
               PlainText(<<"out">>)}}
    \cup
    {[returncode |-> 0, stdout |-> PlainText(<<" ">>), stderr |-> <<"err", "\n">>]}

\* what the completion API can answer
ApiAnswers == {ApiOk(<<"formatted">>), ApiRaises, ApiNoChoices}

\* the exceptions subprocess.run and subprocess.Popen raise
ChmodTimedOut == <<"Command '['chmod', ...]' timed out after 30 seconds">>
PopenNotFound == <<"[Errno 2] No such file or directory: 'cursor-agent'">>

\* ------------------------------------------------------------- helpers
Step(r, label) == pc' = [pc EXCEPT ![r] = label]
Log(r, events) == trace' = [trace EXCEPT ![r] = @ \o events]

\* int((time.time() - start_time) * 1000)
Elapsed(r) == (now - start_time[r]) * 1000

\* ------------------------------------------------- slack_bot.process_query
\* lines 41-47: the empty-query return, or the session key
pq_enter(r) ==
    /\ pc[r] = "idle"
    /\ \E q \in Queries(r), th \in ThreadChoices(r), ch \in Channels :
          /\ event' = [event EXCEPT ![r] = [channel |-> ch, ts |-> TsOf(r), thread_ts |-> th]]
          /\ query' = [query EXCEPT ![r] = q]
          /\ IF ~Truthy(q)
             THEN /\ said' = [said EXCEPT ![r] = empty_query_message]
                  /\ Step(r, "done")
                  /\ Log(r, <<"say">>)
                  /\ UNCHANGED session_id
             ELSE /\ session_id' = [session_id EXCEPT ![r] = get_session_id(Or(th, TsOf(r)))]
                  /\ Step(r, "add_user")
                  /\ UNCHANGED <<said, trace>>
    /\ UNCHANGED <<storeVars, directVars, fsVars, qcVars, conversation_context, result, histBefore>>

\* faulty variant of pq_add_user: the user turn is not recorded
pq_add_user_skipped(r) ==
    /\ pc[r] = "add_user"
    /\ histBefore' = [histBefore EXCEPT ![r] = get_context(conversations, session_id[r])]
    /\ Step(r, "get_context")
    /\ UNCHANGED <<storeVars, directVars, fsVars, qcVars, event, query, session_id,
                   conversation_context, result, said, trace>>

\* line 50: memory_manager.add_message(session_id, "user", query)
pq_add_user(r) ==
    /\ pc[r] = "add_user"
    /\ conversations' = add_message(conversations, max_messages, session_id[r],
                                    "user", query[r], now)
    /\ NoteAdded(session_id[r], "user", query[r], now)
    /\ now' = now + 1
    /\ histBefore' = [histBefore EXCEPT ![r] = get_context(conversations, session_id[r])]
    /\ Step(r, "get_context")
    /\ Log(r, <<"add_user">>)
    /\ UNCHANGED <<max_messages, directVars, fsVars, qcVars, event, query, session_id,
                   conversation_context, result, said>>

\* line 53: conversation_context = memory_manager.get_formatted_context(session_id);
\* line 62 enters query_codebase (line 66: start_time)
pq_get_context(r) ==
    /\ pc[r] = "get_context"
    /\ conversation_context' = [conversation_context EXCEPT ![r] =
                                   get_formatted_context(conversations, session_id[r])]
    /\ start_time' = [start_time EXCEPT ![r] = now]
    /\ Step(r, "protect")
    /\ Log(r, <<"read_context">>)
    /\ UNCHANGED <<storeVars, directVars, fsVars, event, query, session_id, result, said, histBefore,
                   execution_time, argv, proc, ioVars, raw_response, prompt, retval>>

\* ---------------------------------------------- query_service.query_codebase
\* faulty variant of qc_protect: the chmod runs but strips no permission
qc_protect_without_effect(r) ==
    /\ pc[r] = "protect"
    /\ Step(r, "spawn")
    /\ IF enforce THEN Log(r, <<"protect">>) ELSE UNCHANGED trace
    /\ UNCHANGED <<storeVars, directVars, pqVars, fsVars, qcVars>>

\* lines 70-71: chmod -R a-w, which may raise (caught at line 133)
qc_protect(r) ==
    /\ pc[r] = "protect"
    /\ IF enforce
       THEN \/ /\ writable' = FALSE
               /\ Step(r, "spawn")
               /\ Log(r, <<"protect">>)
               /\ UNCHANGED retval
            \/ /\ retval' = [retval EXCEPT ![r] =
                                Failure(FailedMessage(ChmodTimedOut), Elapsed(r))]
               /\ Step(r, "finally")
               /\ Log(r, <<"protect_raised">>)
               /\ UNCHANGED writable
       ELSE /\ Step(r, "spawn")
            /\ UNCHANGED <<writable, retval, trace>>
    /\ UNCHANGED <<storeVars, directVars, pqVars, enforce, start_time, execution_time, argv, proc,
                   ioVars, raw_response, prompt>>

\* lines 74-103: subprocess.Popen, which may raise (caught at line 133)
qc_spawn(r) ==
    /\ pc[r] = "spawn"
    /\ argv' = [argv EXCEPT ![r] = enhanced_query(query[r], conversation_context[r])]
    /\ \/ /\ proc' = [proc EXCEPT ![r] = "running"]
          /\ Step(r, "communicate")
          /\ Log(r, <<"spawn">>)
          /\ UNCHANGED retval
       \/ /\ retval' = [retval EXCEPT ![r] =
                           Failure(FailedMessage(PopenNotFound), Elapsed(r))]
          /\ Step(r, "finally")
          /\ Log(r, <<"spawn_raised">>)
          /\ UNCHANGED proc
    /\ UNCHANGED <<storeVars, directVars, fsVars, pqVars, start_time, execution_time, ioVars,
                   raw_response, prompt>>

\* lines 105-107 and 112-120, 128-129, 133-134: process.communicate(timeout) returns
\* with the process exited, and the output is turned into a raw response or a failure
qc_communicate_exit(r) ==
    /\ pc[r] = "communicate"
    /\ \E out \in ProcessOutputs :
          LET parsed == ParseOutput(out.stdout, out.stderr) IN
          /\ proc' = [proc EXCEPT ![r] = "exited"]
          /\ returncode' = [returncode EXCEPT ![r] = out.returncode]
          /\ stdout_data' = [stdout_data EXCEPT ![r] = out.stdout]
          /\ stderr_data' = [stderr_data EXCEPT ![r] = out.stderr]
          /\ execution_time' = [execution_time EXCEPT ![r] = Elapsed(r)]
          /\ IF out.returncode # 0
             THEN /\ retval' = [retval EXCEPT ![r] =
                        Failure(ExitMessage(out.stderr, out.returncode), Elapsed(r))]
                  /\ Step(r, "finally")
                  /\ Log(r, <<"exit_nonzero">>)
                  /\ UNCHANGED raw_response
             ELSE IF parsed.raised
             THEN /\ retval' = [retval EXCEPT ![r] =
                        Failure(FailedMessage(parsed.exc), Elapsed(r))]
                  /\ Step(r, "finally")
                  /\ Log(r, <<"exit_zero", "parse_raised">>)
                  /\ UNCHANGED raw_response
             ELSE /\ raw_response' = [raw_response EXCEPT ![r] = parsed.raw_response]
                  /\ Step(r, "format")
                  /\ Log(r, <<"exit_zero">>)
                  /\ UNCHANGED retval
    /\ UNCHANGED <<storeVars, directVars, fsVars, pqVars, start_time, argv, prompt>>

\* faulty variant of qc_communicate_timeout: TimeoutError is raised with the process
\* left running (no kill, no reaping)
qc_timeout_without_kill(r) ==
    /\ pc[r] = "communicate"
    /\ retval' = [retval EXCEPT ![r] =
                     Failure(TimeoutMessage(DEFAULT_TIMEOUT), Elapsed(r))]
    /\ Step(r, "finally")
    /\ Log(r, <<"timeout">>)
    /\ UNCHANGED <<storeVars, directVars, fsVars, pqVars, start_time, execution_time, argv, proc,
                   ioVars, raw_response, prompt>>

\* faulty variant of qc_communicate_timeout: write permission is restored as
\* soon as the timeout expires, with the process still running
qc_timeout_restores_first(r) ==
    /\ pc[r] = "communicate"
    /\ writable' = (IF enforce THEN TRUE ELSE writable)
    /\ Step(r, "kill")
    /\ Log(r, IF enforce THEN <<"timeout", "restore">> ELSE <<"timeout">>)
    /\ UNCHANGED <<storeVars, directVars, pqVars, qcVars, enforce>>

\* line 107: process.communicate(timeout) raises subprocess.TimeoutExpired
qc_communicate_timeout(r) ==
    /\ pc[r] = "communicate"
    /\ Step(r, "kill")
    /\ Log(r, <<"timeout">>)
    /\ UNCHANGED <<storeVars, directVars, fsVars, pqVars, qcVars>>

\* line 108: process.kill()
qc_kill(r) ==
    /\ pc[r] = "kill"
    /\ proc' = [proc EXCEPT ![r] = "killed"]
    /\ Step(r, "reap")
    /\ Log(r, <<"kill">>)
    /\ UNCHANGED <<storeVars, directVars, fsVars, pqVars, start_time, execution_time, argv,
                   ioVars, raw_response, prompt, retval>>

\* faulty variant of qc_reap: after a first timeout the analysis process is
\* spawned again instead of TimeoutError being raised
qc_reap_then_retry(r) ==
    /\ pc[r] = "reap"
    /\ proc' = [proc EXCEPT ![r] = "reaped"]
    /\ IF Cardinality({i \in DOMAIN trace[r] : trace[r][i] = "spawn"}) < 2
       THEN /\ Step(r, "spawn")
            /\ UNCHANGED retval
       ELSE /\ retval' = [retval EXCEPT ![r] =
                             Failure(TimeoutMessage(DEFAULT_TIMEOUT), Elapsed(r))]
            /\ Step(r, "finally")
    /\ Log(r, <<"reap">>)
    /\ UNCHANGED <<storeVars, directVars, fsVars, pqVars, start_time, execution_time, argv,
                   ioVars, raw_response, prompt>>

\* lines 109-110 and 131-132: process.communicate() reaps the process, TimeoutError
\* is raised and caught
qc_reap(r) ==
    /\ pc[r] = "reap"
    /\ proc' = [proc EXCEPT ![r] = "reaped"]
    /\ retval' = [retval EXCEPT ![r] =
                     Failure(TimeoutMessage(DEFAULT_TIMEOUT), Elapsed(r))]
    /\ Step(r, "finally")
    /\ Log(r, <<"reap">>)
    /\ UNCHANGED <<storeVars, directVars, fsVars, pqVars, start_time, execution_time, argv,
                   ioVars, raw_response, prompt>>

\* lines 123-127: process_with_ai and the success return
qc_format(r) ==
    /\ pc[r] = "format"
    /\ LET mode == IF is_oncall_or_issue(query[r]) THEN <<"oncall">> ELSE None IN
       /\ prompt' = [prompt EXCEPT ![r] =
                        ai_prompt(raw_response[r], query[r], conversation_context[r], mode)]
       /\ \E api \in ApiAnswers :
             /\ retval' = [retval EXCEPT ![r] =
                   Success(process_with_ai(raw_response[r], api), execution_time[r])]
             /\ Log(r, <<"format", api.outcome>>)
    /\ Step(r, "finally")
    /\ UNCHANGED <<storeVars, directVars, fsVars, pqVars, start_time, execution_time, argv, proc,
                   ioVars, raw_response>>

\* faulty variant of qc_finally: write permission is restored only when the
\* write-protect step had succeeded
qc_finally_if_protected(r) ==
    /\ pc[r] = "finally"
    /\ IF enforce /\ (\E i \in DOMAIN trace[r] : trace[r][i] = "protect")
       THEN \/ /\ writable' = TRUE
               /\ Step(r, "return")
               /\ Log(r, <<"restore">>)
            \/ /\ Step(r, "raised")
               /\ Log(r, <<"restore_raised">>)
               /\ UNCHANGED writable
       ELSE /\ Step(r, "return")
            /\ UNCHANGED <<writable, trace>>
    /\ UNCHANGED <<storeVars, directVars, pqVars, qcVars, enforce>>

\* lines 135-137: chmod -R u+w in the finally block; when it raises, the exception
\* replaces the pending return
qc_finally(r) ==
    /\ pc[r] = "finally"
    /\ IF enforce
       THEN \/ /\ writable' = TRUE
               /\ Step(r, "return")
               /\ Log(r, <<"restore">>)
            \/ /\ Step(r, "raised")
               /\ Log(r, <<"restore_raised">>)
               /\ UNCHANGED writable
       ELSE /\ Step(r, "return")
            /\ UNCHANGED <<writable, trace>>
    /\ UNCHANGED <<storeVars, directVars, pqVars, qcVars, enforce>>

\* slack_bot line 62: result = query_codebase(...); the frame of query_codebase
\* (its locals, the Popen object) is gone
qc_return(r) ==
    /\ pc[r] = "return"
    /\ result' = [result EXCEPT ![r] = retval[r]]
    /\ start_time' = [start_time EXCEPT ![r] = 0]
    /\ execution_time' = [execution_time EXCEPT ![r] = 0]
    /\ argv' = [argv EXCEPT ![r] = None]
    /\ proc' = [proc EXCEPT ![r] = "none"]
    /\ returncode' = [returncode EXCEPT ![r] = 0]
    /\ stdout_data' = [stdout_data EXCEPT ![r] = None]
    /\ stderr_data' = [stderr_data EXCEPT ![r] = None]
    /\ raw_response' = [raw_response EXCEPT ![r] = None]
    /\ prompt' = [prompt EXCEPT ![r] = None]
    /\ retval' = [retval EXCEPT ![r] = NoResult]
    /\ Step(r, "handle")
    /\ Log(r, <<"return">>)
    /\ UNCHANGED <<storeVars, directVars, fsVars, event, query, session_id,
                   conversation_context, said, histBefore>>

\* faulty variant of pq_handle: the reply is recorded as an assistant turn whether the
\* result is a success or not
pq_handle_records_always(r) ==
    /\ pc[r] = "handle"
    /\ LET reply == IF result[r].success THEN result[r].response
                    ELSE <<"Sorry, I encountered an error: ">> \o result[r].error
       IN  /\ conversations' = add_message(conversations, max_messages, session_id[r],
                                           "assistant", reply, now)
           /\ NoteAdded(session_id[r], "assistant", reply, now)
           /\ said' = [said EXCEPT ![r] = reply]
    /\ now' = now + 1
    /\ Log(r, <<"add_assistant", "say">>)
    /\ Step(r, "done")
    /\ UNCHANGED <<max_messages, directVars, fsVars, qcVars, event, query, session_id,
                   conversation_context, result, histBefore>>

\* faulty variant of pq_handle: the assistant turn replaces the session's list
\* instead of being appended to it
pq_handle_overwrites(r) ==
    /\ pc[r] = "handle"
    /\ IF result[r].success
       THEN /\ conversations' = DictSet(conversations, session_id[r],
                                    <<Message("assistant", result[r].response, now)>>)
            /\ NoteAdded(session_id[r], "assistant", result[r].response, now)
            /\ now' = now + 1
            /\ said' = [said EXCEPT ![r] = result[r].response]
            /\ Log(r, <<"add_assistant", "say">>)
       ELSE /\ said' = [said EXCEPT ![r] =
                           <<"Sorry, I encountered an error: ">> \o result[r].error]
            /\ Log(r, <<"say">>)
            /\ UNCHANGED <<conversations, added, now>>
    /\ Step(r, "done")
    /\ UNCHANGED <<max_messages, directVars, fsVars, qcVars, event, query, session_id,
                   conversation_context, result, histBefore>>

\* slack_bot lines 71-83: record the assistant turn and reply, or report the error
pq_handle(r) ==
    /\ pc[r] = "handle"
    /\ IF result[r].success
       THEN /\ conversations' = add_message(conversations, max_messages, session_id[r],
                                            "assistant", result[r].response, now)
            /\ NoteAdded(session_id[r], "assistant", result[r].response, now)
            /\ now' = now + 1
            /\ said' = [said EXCEPT ![r] = result[r].response]
            /\ Log(r, <<"add_assistant", "say">>)
       ELSE /\ said' = [said EXCEPT ![r] =
                           <<"Sorry, I encountered an error: ">>
                           \o (IF result[r].error = None THEN <<"Unknown error">>
                               ELSE result[r].error)]
            /\ Log(r, <<"say">>)
            /\ UNCHANGED <<conversations, added, now>>
    /\ Step(r, "done")
    /\ UNCHANGED <<max_messages, directVars, fsVars, qcVars, event, query, session_id,
                   conversation_context, result, histBefore>>

\* slack_bot lines 103-104, 132-133: the handler's "except Exception" around
\* process_query, reached when query_codebase raises
handler_except(r) ==
    /\ pc[r] = "raised"
    /\ said' = [said EXCEPT ![r] =
                   <<"Sorry, I encountered an error processing your request: ">>
                   \o ChmodTimedOut]
    /\ Step(r, "done")
    /\ Log(r, <<"say">>)
    /\ UNCHANGED <<storeVars, directVars, fsVars, qcVars, event, query, session_id,
                   conversation_context, result, histBefore>>

Next ==
    \E r \in Requests :
        \/ pq_enter(r)
        \/ pq_add_user(r)
        \/ pq_get_context(r)
        \/ qc_protect(r)
        \/ qc_spawn(r)
        \/ qc_communicate_exit(r)
        \/ qc_communicate_timeout(r)
        \/ qc_kill(r)
        \/ qc_reap(r)
        \/ qc_format(r)
        \/ qc_finally(r)
        \/ qc_return(r)
        \/ pq_handle(r)
        \/ handler_except(r)

Spec == Init /\ [][Next]_vars

\* ======================================================== the claims
Has(tr, e) == \E i \in DOMAIN tr : tr[i] = e
Before(tr, a, b) == \E i, j \in DOMAIN tr : i < j /\ tr[i] = a /\ tr[j] = b
Count(tr, S) == Cardinality({i \in DOMAIN tr : tr[i] \in S})

\* the last n elements of a list
LastN(list, n) ==
    IF n >= Len(list) THEN list ELSE SubSeq(list, Len(list) - n + 1, Len(list))

\* the request has entered query_codebase / has left it (by return or by raise)
QcEntered(r) == Has(trace[r], "read_context")
QcExited(r) == QcEntered(r) /\ pc[r] \in {"return", "raised", "handle", "done"}

RestoreEvents == {"restore", "restore_raised"}

\* the analysis invocation of the request failed
FailureEvents == {"protect_raised", "spawn_raised", "timeout", "exit_nonzero", "parse_raised"}
AnalysisFailed(r) == \E e \in FailureEvents : Has(trace[r], e)

\* C11: when the analysis process exits with a non-zero code, the call returns
\* success: false whose error is the captured standard error when that is not
\* empty and otherwise "Process exited with code <code>"; the formatter is not
\* called and nothing written to standard output becomes a response.
C11_NonZeroExit ==
    \A r \in Requests :
        /\ (pc[r] = "finally" /\ returncode[r] # 0 /\ proc[r] = "exited") =>
               /\ Has(trace[r], "exit_nonzero")
               /\ ~retval[r].success
               /\ retval[r].response = None
               /\ retval[r].error =
                      (IF stderr_data[r] # <<>> THEN stderr_data[r]
                       ELSE <<"Process exited with code ", ToString(returncode[r])>>)
               /\ retval[r].error # stdout_data[r].body
               /\ raw_response[r] = None
               /\ prompt[r] = None
        /\ Has(trace[r], "exit_nonzero") =>
               /\ ~Has(trace[r], "format")
               /\ ~Has(trace[r], "add_assistant")
               /\ (pc[r] \in {"handle", "done"} /\ Has(trace[r], "return")) =>
                      /\ ~result[r].success
                      /\ result[r].response = None
                      /\ Truthy(result[r].error)

C11_Witness ==
    \E r \in Requests :
        /\ pc[r] = "finally"
        /\ returncode[r] = 1
        /\ stderr_data[r] = <<>>
        /\ stdout_data[r].body = <<"partial">>
        /\ retval[r].error = <<"Process exited with code ", "1">>

\* C12: nothing is retried: a request spawns the analysis process at most once
\* and calls the completion API at most once, whatever the outcome of either
\* (timeout, non-zero exit, spawn failure, completion error), and a failed
\* invocation is reported to the user right away.
SpawnEvents == {"spawn", "spawn_raised"}
ApiEvents == {"api_ok", "api_raise", "api_no_choices"}

C12_NoRetry ==
    \A r \in Requests :
        /\ Count(trace[r], SpawnEvents) <= 1
        /\ Count(trace[r], {"format"}) <= 1
        /\ Count(trace[r], ApiEvents) <= 1
        /\ Count(trace[r], {"timeout"}) <= 1
        /\ (pc[r] = "done" /\ AnalysisFailed(r)) =>
               /\ Count(trace[r], {"say"}) = 1
               /\ said[r][1] \in {"Sorry, I encountered an error: ",
                                  "Sorry, I encountered an error processing your request: "}

C12_Witness ==
    \E r, o \in Requests :
        /\ pc[r] = "done"
        /\ Has(trace[r], "timeout")
        /\ Count(trace[r], SpawnEvents) = 1
        /\ pc[o] = "done"
        /\ Has(trace[o], "api_raise")
        /\ Count(trace[o], ApiEvents) = 1

\* C13: _is_oncall_or_issue returns True (ONCALL) exactly when some keyword
\* occurs in the query, letter case aside, at some position, inside a longer
\* word included; an empty or blank query yields False (DEFAULT); and the result
\* is the same for the query in upper case, in lower case and as given.
KeywordAt(q, k, i) ==
    /\ i + Len(triggers[k]) - 1 <= Len(q)
    /\ \A j \in 1..Len(triggers[k]) : Lower(<<q[i + j - 1]>>) = <<triggers[k][j]>>

HasKeyword(q) == \E k \in 1..Len(triggers) : \E i \in 1..Len(q) : KeywordAt(q, k, i)

Blank(q) == \A i \in 1..Len(q) : q[i] \in WhiteSpace

C13_Classifier ==
    (call.fn = "_is_oncall_or_issue" /\ ret.done) =>
        /\ ret.value = HasKeyword(call.arg)
        /\ Blank(call.arg) => ~ret.value
        /\ ret.value = is_oncall_or_issue(Upper(call.arg))
        /\ ret.value = is_oncall_or_issue(Lower(call.arg))

C13_Witness ==
    /\ call.fn = "_is_oncall_or_issue"
    /\ ret.done
    /\ call.arg = <<"a", "F", "I", "X", "a">>
    /\ ret.value

\* C14: on exit code 0 a raw text is always chosen, and it is never empty: when
\* standard output parses as JSON, the result field if type is "result", else
\* the first non-empty of response, content, text, else a dump of the payload,
\* with "No response" in place of a value that holds no text; when it does not
\* parse, trimmed standard output, else trimmed standard error, else
\* "Empty response".
HoldsText(v) == v # None /\ v # <<>>

ChainOfFields(p) ==
    IF p.type = <<"result">> THEN p.result
    ELSE IF HoldsText(p.response) THEN p.response
    ELSE IF HoldsText(p.content) THEN p.content
    ELSE IF HoldsText(p.text) THEN p.text
    ELSE Dump(p)

ChainOfOutputs(out, err) ==
    IF Strip(out) # <<>> THEN Strip(out)
    ELSE IF Strip(err) # <<>> THEN Strip(err)
    ELSE <<"Empty response">>

C14_FallbackChain ==
    (call.fn = "parse" /\ ret.done) =>
        /\ ~ret.value.raised
        /\ HoldsText(ret.value.raw_response)
        /\ call.arg.stdout.kind = "object" =>
               ret.value.raw_response =
                   (IF HoldsText(ChainOfFields(call.arg.stdout.payload))
                    THEN ChainOfFields(call.arg.stdout.payload)
                    ELSE <<"No response">>)
        /\ call.arg.stdout.kind = "text" =>
               ret.value.raw_response =
                   ChainOfOutputs(call.arg.stdout.body, call.arg.stderr)

\* C15: clear_session is idempotent and total: clearing an absent session changes
\* nothing, clearing again right after a clear changes nothing, and a cleared
\* session is like one that never existed: its key is gone, get_context returns
\* the empty list, get_formatted_context the empty text, the other sessions are
\* as they were, and the next add_message starts it afresh.
C15_ClearIdempotent ==
    /\ [](call.fn = "clear_session" =>
            /\ ret.done
            /\ call.sid \notin DOMAIN conversations
            /\ get_context(conversations, call.sid) = <<>>
            /\ get_formatted_context(conversations, call.sid) = <<>>
            /\ clear_session(conversations, call.sid) = conversations)
    /\ []((call.fn \in {"get_context", "get_formatted_context"}
            /\ call.sid \notin DOMAIN conversations) => ret.value = <<>>)
    /\ [][call'.fn = "clear_session" =>
            /\ conversations' = [k \in (DOMAIN conversations) \ {call'.sid} |->
                                     conversations[k]]
            /\ call'.sid \notin DOMAIN conversations => conversations' = conversations]_vars
    /\ [][(call.fn = "clear_session" /\ call'.fn = "add_message"
            /\ call'.sid = call.sid) =>
               /\ Len(conversations'[call.sid]) = 1
               /\ get_context(conversations', call.sid) = added'[call.sid]]_vars

C15_Witness ==
    /\ call.fn = "clear_session"
    /\ added[call.sid] = <<>>
    /\ now >= 2
    /\ \E s \in DOMAIN conversations : s # call.sid /\ Len(conversations[s]) = 2

\* C20: add_message(s, ...) and clear_session(s) leave every session other than
\* s as it was (present or absent, and its turns); get_context,
\* get_formatted_context and get_session_id leave the whole store as it was, so
\* reading an unknown session does not create it.
ReadOps == {"get_context", "get_formatted_context", "get_session_id"}

C20_Frame ==
    /\ [][\A s \in SessionIds :
            (s # call'.sid \/ call'.fn \in ReadOps) =>
                /\ (s \in DOMAIN conversations') = (s \in DOMAIN conversations)
                /\ get_context(conversations', s) = get_context(conversations, s)]_vars
    /\ [][call'.fn \in ReadOps =>
            /\ conversations' = conversations
            /\ max_messages' = max_messages]_vars
    /\ [][call'.fn \in {"add_message", "clear_session"} =>
            max_messages' = max_messages]_vars

C20_Witness ==
    /\ call.fn = "get_context"
    /\ ret.done
    /\ ret.value = <<>>
    /\ call.sid \notin DOMAIN conversations
    /\ \E s \in DOMAIN conversations : Len(conversations[s]) = 2

\* the analysis process of the request exists and has not been reaped
Alive(r) == proc[r] \in {"running", "killed"}

\* C16: with enforcement enabled, write permission is stripped before the
\* analysis process is spawned and restored only after the process has exited
\* or been killed and reaped (and after formatting on the success path): while
\* the process of an invocation is alive that invocation has issued no restore,
\* and with no other invocation around the directory is then not writable.
C16_ProtectedWhileAlive ==
    enforce =>
        \A r \in Requests :
            /\ Has(trace[r], "spawn") => Before(trace[r], "protect", "spawn")
            /\ Alive(r) =>
                   /\ Has(trace[r], "protect")
                   /\ \A e \in RestoreEvents : ~Has(trace[r], e)
            /\ \A e \in RestoreEvents :
                   Has(trace[r], e) =>
                       /\ proc[r] \in {"none", "exited", "reaped"}
                       /\ Has(trace[r], "spawn") =>
                              \/ Before(trace[r], "exit_zero", e)
                              \/ Before(trace[r], "exit_nonzero", e)
                              \/ Before(trace[r], "reap", e)
                       /\ Has(trace[r], "format") => Before(trace[r], "format", e)
            /\ (Alive(r) /\ \A o \in Requests \ {r} : ~QcEntered(o)) => ~writable

C16_Witness ==
    \E r \in Requests :
        /\ enforce
        /\ pc[r] = "return"
        /\ Has(trace[r], "format")
        /\ Has(trace[r], "restore")
        /\ writable
        /\ \A o \in Requests \ {r} : ~QcEntered(o)

\* C17: nothing excludes two invocations on the repository from each other: the
\* directory is writable under a live analysis process of an enforcing
\* invocation only when another invocation has restored write permission, and
\* that state is reached.
C17_WritableOnlyByRace ==
    \A r \in Requests :
        (enforce /\ Alive(r) /\ writable) =>
            \E o \in Requests \ {r} :
                /\ Has(trace[o], "restore")
                /\ Has(trace[r], "protect")

C17_Witness ==
    \E r, o \in Requests :
        /\ r # o
        /\ enforce
        /\ proc[r] = "running"
        /\ Has(trace[r], "protect")
        /\ Has(trace[o], "restore")
        /\ pc[o] \in {"return", "handle", "done"}
        /\ writable

\* the turns request r has appended to its session so far
OwnTurns(r) == Count(trace[r], {"add_user", "add_assistant"})

\* the positions in the list of the turns with this role and content
Positions(list, role, content) ==
    {i \in DOMAIN list : list[i].role = role /\ list[i].content = content}

\* C18: appends of concurrent requests on one session interleave freely, each
\* append being whole: the session is a merge of the requests' own turns (none
\* lost, none added, the retained ones being the last appended), and a merge out
\* of causal order is reached: user A, user B, assistant B, assistant A, with
\* the context read by A holding B's user turn without B's answer.
C18_SessionIsMerge ==
    \A s \in SessionIds :
        LET on == {r \in Requests : session_id[r] = s} IN
        /\ Len(added[s]) =
               (IF 1 \in on THEN OwnTurns(1) ELSE 0) + (IF 2 \in on THEN OwnTurns(2) ELSE 0)
        /\ \A r \in on :
               /\ Has(trace[r], "add_user") =>
                      Positions(added[s], "user", query[r]) # {}
               /\ Has(trace[r], "add_assistant") =>
                      Positions(added[s], "assistant", result[r].response) # {}
        /\ get_context(conversations, s) =
               (IF max_messages = 0 THEN added[s] ELSE LastN(added[s], max_messages))

C18_Witness ==
    \E a, b \in Requests :
        /\ a # b
        /\ session_id[a] = session_id[b]
        /\ pc[a] = "done"
        /\ pc[b] = "done"
        /\ result[a].response # result[b].response
        /\ LET turns == get_context(conversations, session_id[a]) IN
           /\ Len(turns) = 4
           /\ turns[1] = Message("user", query[a], turns[1].timestamp)
           /\ turns[2] = Message("user", query[b], turns[2].timestamp)
           /\ turns[3] = Message("assistant", result[b].response, turns[3].timestamp)
           /\ turns[4] = Message("assistant", result[a].response, turns[4].timestamp)
           /\ conversation_context[a] = FormatMessages(SubSeq(turns, 1, 2))

\* the list ends with the other one
IsSuffix(part, whole) ==
    /\ Len(part) <= Len(whole)
    /\ part = SubSeq(whole, Len(whole) - Len(part) + 1, Len(whole))

\* C19: concurrent add_message calls on a session lose no turn: once the calls
\* have completed, the session holds every turn appended when their number does
\* not exceed max_messages, and otherwise misses only the oldest ones.
C19_NoTurnLost ==
    (\A t \in Threads : am_pc[t] = "idle") =>
        \A s \in SessionIds :
            LET turns == get_context(conversations, s) IN
            /\ Len(added[s]) <= max_messages => turns = added[s]
            /\ Len(added[s]) > max_messages =>
                   /\ IsSuffix(turns, added[s])
                   /\ Len(turns) >= max_messages

\* C21: query_codebase never raises: every call that has ended, a failure or
\* timeout of the write-protect step or of the restore step included, has handed
\* its caller a dictionary with success: true and a response, or success: false
\* and an error, together with an execution time.
C21_AlwaysReturnsResult ==
    \A r \in Requests :
        QcExited(r) =>
            /\ pc[r] # "raised"
            /\ ~Has(trace[r], "restore_raised")
            /\ pc[r] \in {"handle", "done"} =>
                   /\ Has(trace[r], "return")
                   /\ result[r].executionTime >= 0
                   /\ \/ result[r].success /\ result[r].response # None
                      \/ ~result[r].success /\ result[r].error # None

\* C1: with enforcement enabled, every call of query_codebase issues the chmod u+w
\* restore exactly once, whichever way it exits (success, timeout, non-zero exit,
\* spawn failure, failure of the write-protect step): never more than once, and
\* once by the time the call has exited.
C1_RestoreExactlyOnce ==
    enforce =>
        \A r \in Requests :
            /\ Count(trace[r], RestoreEvents) <= 1
            /\ QcExited(r) => Count(trace[r], RestoreEvents) = 1

C1_Witness ==
    \E r \in Requests :
        /\ enforce
        /\ pc[r] = "done"
        /\ Has(trace[r], "protect_raised")
        /\ Count(trace[r], RestoreEvents) = 1

\* C2: whenever the completion call raises or returns no choices, the text
\* process_with_ai returns is the raw text followed by the advisory note.
C2_UniformFallback ==
    \A r \in Requests :
        (pc[r] = "finally" /\ (Has(trace[r], "api_raise") \/ Has(trace[r], "api_no_choices")))
            => /\ retval[r].success
               /\ retval[r].response = raw_response[r] \o AI_NOTE

\* C3: every invocation whose analysis process exits with code 0 within the
\* timeout returns success: true with a response text, whatever the process
\* wrote and whatever the completion call did.
C3_ExitZeroSucceeds ==
    \A r \in Requests :
        (pc[r] = "handle" /\ Has(trace[r], "exit_zero"))
            => /\ result[r].success
               /\ Truthy(result[r].response)

\* C4: on a timeout the process is killed and reaped, then write permission is
\* restored (when enforcement is enabled), then the caller receives a result with
\* success: false whose error names the timeout and holds the configured timeout
\* value; the formatter is never called.
C4_TimeoutOrder ==
    \A r \in Requests :
        Has(trace[r], "timeout") =>
            /\ ~Has(trace[r], "format")
            /\ (pc[r] \in {"finally", "return"} => proc[r] = "reaped")
            /\ ((\E e \in RestoreEvents : Has(trace[r], e)) =>
                   /\ Before(trace[r], "timeout", "kill")
                   /\ Before(trace[r], "kill", "reap")
                   /\ \A e \in RestoreEvents :
                          Has(trace[r], e) => Before(trace[r], "reap", e))
            /\ (Has(trace[r], "return") =>
                   /\ Before(trace[r], "kill", "reap")
                   /\ Before(trace[r], "reap", "return")
                   /\ (enforce => Before(trace[r], "restore", "return")))
            /\ (pc[r] = "handle" =>
                   /\ ~result[r].success
                   /\ result[r].response = None
                   /\ result[r].error = TimeoutMessage(DEFAULT_TIMEOUT)
                   /\ result[r].error[1] = "Query timeout after "
                   /\ Contains(result[r].error, <<ToString(DEFAULT_TIMEOUT)>>))

C4_Witness ==
    \E r \in Requests :
        /\ enforce
        /\ pc[r] = "handle"
        /\ Has(trace[r], "timeout")
        /\ Has(trace[r], "restore")

\* C5: every session holds at most max_messages turns, whatever non-negative
\* max_messages the store was configured with (0 and 1 included).
C5_LengthBound ==
    \A s \in DOMAIN conversations : Len(conversations[s]) <= max_messages

\* C6: after N > max_messages add_message calls on a session, get_context
\* returns exactly the last max_messages turns added, in the order added.
C6_MostRecentKept ==
    \A s \in SessionIds :
        Len(added[s]) > max_messages =>
            get_context(conversations, s) = LastN(added[s], max_messages)

\* C7: when the analysis invocation of a request fails, the result it gets has
\* success: false and an error text, no assistant turn is recorded for it, and its
\* user turn stays recorded (the failure path leaves the store alone; with no
\* other request on the session, the user turn is the session's last turn); an
\* assistant turn is recorded only for a result with success: true.
C7_FailureRecordsNoAssistant ==
    /\ [](\A r \in Requests :
            /\ (AnalysisFailed(r) /\ Has(trace[r], "return")) =>
                   /\ ~result[r].success
                   /\ Truthy(result[r].error)
            /\ AnalysisFailed(r) => ~Has(trace[r], "add_assistant")
            /\ Has(trace[r], "add_assistant") => result[r].success
            /\ (/\ AnalysisFailed(r)
                /\ pc[r] = "done"
                /\ \A o \in Requests \ {r} : session_id[o] # session_id[r]) =>
                   LET turns == get_context(conversations, session_id[r]) IN
                   /\ turns # <<>>
                   /\ turns[Len(turns)].role = "user"
                   /\ turns[Len(turns)].content = query[r])
    /\ [][\A r \in Requests :
            (AnalysisFailed(r) /\ pc[r] # pc'[r]
                /\ pc[r] \in {"finally", "return", "handle", "raised"})
                => conversations' = conversations]_vars

C7_Witness ==
    \E r \in Requests :
        /\ pc[r] = "done"
        /\ Has(trace[r], "exit_nonzero")
        /\ Has(trace[r], "return")
        /\ ~result[r].success
        /\ get_context(conversations, session_id[r]) # <<>>

\* C8: the user turn of a request is appended to its session before its own
\* assistant turn, also when another request runs concurrently on the session;
\* and the formatter is called only once the analysis process has exited.
C8_Ordering ==
    \A r \in Requests :
        /\ Has(trace[r], "add_assistant") =>
              /\ Before(trace[r], "add_user", "add_assistant")
              /\ \E i, j \in DOMAIN added[session_id[r]] :
                    /\ i < j
                    /\ added[session_id[r]][i].role = "user"
                    /\ added[session_id[r]][i].content = query[r]
                    /\ added[session_id[r]][j].role = "assistant"
                    /\ added[session_id[r]][j].content = result[r].response
        /\ pc[r] = "format" => proc[r] = "exited"
        /\ Has(trace[r], "format") =>
              /\ Before(trace[r], "exit_zero", "format")
              /\ ~Has(trace[r], "timeout")

C8_Witness ==
    \E r, o \in Requests :
        /\ r # o
        /\ session_id[r] = session_id[o]
        /\ Has(trace[r], "add_assistant")
        /\ Has(trace[o], "add_assistant")
        /\ max_messages = 2

\* C9: the conversation context handed to the analysis invocation of a request
\* is the rendering of the session as it was before the request's own user turn
\* was recorded (empty for the first query of a fresh session).
C9_ContextBeforeOwnTurn ==
    \A r \in Requests :
        pc[r] = "communicate" =>
            /\ conversation_context[r] = FormatMessages(histBefore[r])
            /\ argv[r] = enhanced_query(query[r], FormatMessages(histBefore[r]))

\* C10: omitting the thread identifier yields the key of the channel used as
\* thread identifier, and the running bot maps two unthreaded messages of one
\* channel to the same session.
C10_UnthreadedShareSession ==
    /\ \A r \in Requests :
          session_id[r] # None =>
              lambda_get_session_id(<<"U1">>, event[r].channel, None)
                  = lambda_get_session_id(<<"U1">>, event[r].channel, event[r].channel)
    /\ \A r, o \in Requests :
          (/\ session_id[r] # None
           /\ session_id[o] # None
           /\ event[r].thread_ts = None
           /\ event[o].thread_ts = None
           /\ event[r].channel = event[o].channel)
              => session_id[r] = session_id[o]

====
